---------------------------- MODULE Spec2Model ----------------------------
(***************************************************************************)
(* Model of the signaling relay of src/server.js (first revision in the    *)
(* file, lines 1-470): the rate and abuse guard, the anti-forgery token    *)
(* store, the room registry, the connection registry and the WebSocket     *)
(* message handler, together with the three kinds of timers the server     *)
(* arms (two setInterval sweeps, and one-shot setTimeout removals).         *)
(*                                                                         *)
(* Time is Date.now() in milliseconds, counted from server start.  A timer *)
(* never fires before it is due; once due it fires before the clock moves  *)
(* on, but handlers of requests that arrive at that instant may run first. *)
(***************************************************************************)
EXTENDS Integers, Sequences, FiniteSets, TLC

(***************************************************************************)
(* Program constants.                                                      *)
(***************************************************************************)
RATE_LIMIT_WINDOW == 60000
RATE_LIMIT_MAX_REQUESTS == 3
MAX_ROOMS == 5
EMPTY_ROOM_TIMEOUT == 10 * 60 * 1000
GLOBAL_ROOM_LIMIT_WINDOW == 3600000
GLOBAL_MAX_ROOMS_PER_HOUR == 10
CSRF_TOKEN_LIFETIME == 300000
BLOCK_DURATION == 3600000
TOKEN_MIN_AGE == 1000
ROOM_SWEEP_INTERVAL == 60 * 1000
CHAT_HARD_CAP == 200
CHAT_TRIM_SIZE == 100
CHAT_HISTORY_SLICE == 50

\* JavaScript null, for a room binding, a timestamp and a nickname.
NullRoom == 0
NullTime == -1
NullNick == "<null>"

VARIABLES
    now,                  \* Date.now()
    rooms,                \* Map roomId -> room record
    clients,              \* Map clientId -> connection entry
    rateLimit,            \* Map ip -> [count, resetTime]
    suspiciousIPs,        \* Set of ip
    globalRoomCreations,  \* array of creation timestamps
    csrfTokens,           \* Map token -> [ip, createdAt]
    timers,               \* pending setTimeout callbacks
    rateSweepDue,         \* next due time of the rate-record setInterval
    roomSweepDue,         \* next due time of the room-expiry setInterval
    uuids,                \* how many uuidv4() values of each kind were drawn
    sent,                 \* what the last handler sent: <<[to, msg]>>
    last,                 \* the last operation, its inputs and its HTTP response
    ticks,                \* number of clock advances so far
    hist                  \* history, read by the properties only:
                          \*   appended[r]    every chat message pushed to room r
                          \*   issued[token]  when the token was issued
                          \*   consumed       tokens found in the store by create-room
                          \*   promotedAt[ip] when checkRateLimit last block-listed ip
                          \*   tokenBlocked   addresses block-listed by a token check
                          \*   calls[ip]      create-room's checkRateLimit calls
                          \*   creations      times of the successful creations
                          \*   emptySince[r]  since when room r's participant map
                          \*                  is empty (NullTime while it is not)

vars == <<now, rooms, clients, rateLimit, suspiciousIPs, globalRoomCreations,
          csrfTokens, timers, rateSweepDue, roomSweepDue, uuids, sent, last,
          ticks, hist>>

(***************************************************************************)
(* Map and array helpers (JavaScript Map / Array semantics).               *)
(***************************************************************************)
MapSet(m, k, v) == [x \in (DOMAIN m) \cup {k} |-> IF x = k THEN v ELSE m[x]]

MapDelete(m, k) == [x \in (DOMAIN m) \ {k} |-> m[x]]

\* Array.prototype.slice(-n)
SliceLast(s, n) ==
    IF Len(s) <= n THEN s ELSE SubSeq(s, Len(s) - n + 1, Len(s))

\* new Map()
EmptyMap == [x \in {} |-> 0]

\* JavaScript truthiness of a timestamp-or-null
Truthy(t) == t # NullTime /\ t # 0

(***************************************************************************)
(* Rate and abuse guard.                                                   *)
(***************************************************************************)
\* The body of checkRateLimit(ip) run at the current time on a record map
\* rl, a block list sus and a set of pending timers tms: its return value
\* and what it leaves of the three ("promoted": this call put ip on the
\* block list), with the count that denies and the delay of the unblock
\* timer as parameters.
RateLimitOn(rl, sus, tms, ip, ceiling, blockFor) ==
    LET keep == [ok |-> FALSE, rateLimit |-> rl,
                 suspiciousIPs |-> sus, timers |-> tms,
                 promoted |-> FALSE]
        fresh == [keep EXCEPT !.ok = TRUE,
                     !.rateLimit = MapSet(rl, ip,
                         [count |-> 1, resetTime |-> now + RATE_LIMIT_WINDOW])]
    IN  IF ip \in sus THEN keep
        ELSE IF ip \notin DOMAIN rl THEN fresh
        ELSE IF now > rl[ip].resetTime THEN fresh
        ELSE IF rl[ip].count >= ceiling
             THEN [keep EXCEPT
                     !.suspiciousIPs = sus \cup {ip},
                     !.timers = tms \cup
                         {[kind |-> "unblock", key |-> ip,
                           due |-> now + blockFor]},
                     !.promoted = TRUE]
        ELSE [keep EXCEPT !.ok = TRUE,
                 !.rateLimit = [rl EXCEPT ![ip].count = @ + 1]]

\* The outcome of checkRateLimit(ip) on the server's guard state.
RateLimitOutcome(ip, ceiling, blockFor) ==
    RateLimitOn(rateLimit, suspiciousIPs, timers, ip, ceiling, blockFor)

\* Variant: the block lasts one rate window only.
checkRateLimit_short_block(ip) ==
    RateLimitOutcome(ip, RATE_LIMIT_MAX_REQUESTS, RATE_LIMIT_WINDOW)

\* Variant: the count is compared with > instead of >=.
checkRateLimit_off_by_one(ip) ==
    RateLimitOutcome(ip, RATE_LIMIT_MAX_REQUESTS + 1, BLOCK_DURATION)

checkRateLimit(ip) ==
    RateLimitOutcome(ip, RATE_LIMIT_MAX_REQUESTS, BLOCK_DURATION)

\* hist.unswept follows the same server with the rate-record sweep switched
\* off: the record map and block list that the same calls of checkRateLimit
\* at the same times leave when no record is ever deleted, and whether each
\* call so far returned there what it returned here.  This is its value
\* after a call for ip that returned ok here.
UnsweptAfterCall(ip, ok) ==
    LET rl == RateLimitOn(hist.unswept.rateLimit, hist.unswept.suspiciousIPs,
                          timers, ip, RATE_LIMIT_MAX_REQUESTS, BLOCK_DURATION)
    IN  [rateLimit |-> rl.rateLimit, suspiciousIPs |-> rl.suspiciousIPs,
         agree |-> hist.unswept.agree /\ (rl.ok <=> ok)]

\* Request headers as isValidRequest reads them.  ua and origin are the
\* header strings; the substring tests of the code are tabulated for the
\* header values the model sends.
hasValidUA(ua) == ua \in {"Mozilla/5.0 Chrome/120"}

validOrigin(origin) == origin \in {"https://xiovoice.onrender.com"}

isValidRequest(req) ==
    /\ hasValidUA(req.ua)
    /\ validOrigin(req.origin)
    /\ (req.secFetchSite = "same-origin" /\ req.secFetchMode = "cors")

BrowserRequest == [ua |-> "Mozilla/5.0 Chrome/120",
                   origin |-> "https://xiovoice.onrender.com",
                   secFetchSite |-> "same-origin", secFetchMode |-> "cors"]

ScriptRequest == [ua |-> "curl/8.4", origin |-> "https://evil.example",
                  secFetchSite |-> "", secFetchMode |-> ""]

(***************************************************************************)
(* uuidv4().  A full uuid (token, connection id, message id) is modelled   *)
(* as the index of its draw, so it is fresh; the 8-hex-digit room id is    *)
(* an input of create-room, drawn by each specification, and may repeat.   *)
(* NoHeader is a request without the x-csrf-token header, ForgedToken a    *)
(* header value that was never issued.                                     *)
(***************************************************************************)
NoHeader == 0
\* no address: the request's token is not in the store
NoIP == 0
ForgedToken == -1

Draw(kind) == uuids[kind] + 1

(***************************************************************************)
(* GET /api/csrf-token                                                     *)
(***************************************************************************)
IssueToken(ip, maxTokens) ==
    /\ uuids.token < maxTokens
    /\ LET token == Draw("token") IN
        /\ csrfTokens' = MapSet(csrfTokens, token, [ip |-> ip, createdAt |-> now])
        /\ timers' = timers \cup
               {[kind |-> "csrf", key |-> token, due |-> now + CSRF_TOKEN_LIFETIME]}
        /\ uuids' = [uuids EXCEPT !.token = token]
        /\ last' = [op |-> "csrf-token", ip |-> ip, token |-> token]
        /\ hist' = [hist EXCEPT !.issued = MapSet(@, token, now)]
    /\ sent' = <<>>
    /\ UNCHANGED <<now, rooms, clients, rateLimit, suspiciousIPs,
                   globalRoomCreations, rateSweepDue, roomSweepDue, ticks>>

(***************************************************************************)
(* POST /api/create-room                                                   *)
(***************************************************************************)
\* Variant: the creations of the last rate window only.
RecentCreations_short_window(creations, t0) ==
    SelectSeq(creations, LAMBDA t : t0 - t < RATE_LIMIT_WINDOW)

\* globalRoomCreations.filter(t => now - t < GLOBAL_ROOM_LIMIT_WINDOW)
RecentCreations(creations, t0) ==
    SelectSeq(creations, LAMBDA t : t0 - t < GLOBAL_ROOM_LIMIT_WINDOW)

\* Variant: the record starts without an empty timestamp.
NewRoom_without_stamp(roomId, adminKey) ==
    [id |-> roomId, adminKey |-> adminKey, createdAt |-> now,
     lastEmptyTime |-> NullTime, participants |-> <<>>, messages |-> <<>>]

\* The room record create-room stores.
NewRoom(roomId, adminKey) ==
    [id |-> roomId, adminKey |-> adminKey, createdAt |-> now,
     lastEmptyTime |-> now, participants |-> <<>>, messages |-> <<>>]

\* Variant: a token presented too early stays in the store.
ConsumeToken_after_age_check(store, csrfToken) ==
    IF now - store[csrfToken].createdAt < TOKEN_MIN_AGE THEN store
    ELSE MapDelete(store, csrfToken)

\* csrfTokens after the lookup: the token is deleted before any check of it.
ConsumeToken(store, csrfToken) == MapDelete(store, csrfToken)

\* Variant: a token counts only for the address it was issued to.
TokenKnown_to_issuer_only(store, ip, csrfToken) ==
    /\ csrfToken # NoHeader
    /\ csrfToken \in DOMAIN store
    /\ store[csrfToken].ip = ip

\* csrfToken && csrfTokens.has(csrfToken), for a request from address ip
TokenKnown(store, ip, csrfToken) ==
    /\ csrfToken # NoHeader
    /\ csrfToken \in DOMAIN store

\* Variant: the size is compared with > instead of >=.
AtCapacity_off_by_one == Cardinality(DOMAIN rooms) > MAX_ROOMS

\* rooms.size >= MAX_ROOMS
AtCapacity == Cardinality(DOMAIN rooms) >= MAX_ROOMS

\* The handler run on the token store given as store: the response and the
\* state it leaves.  The parameter early tells whether checkRateLimit is
\* called on entry, before the token checks, instead of after them.
CreateRoomOn(store, ip, csrfToken, req, roomId, early) ==
    LET rl == checkRateLimit(ip)
        untouched == [status |-> 403, error |-> "Invalid token",
                      csrfTokens |-> store, suspiciousIPs |-> suspiciousIPs,
                      rateLimit |-> rateLimit, timers |-> timers,
                      globalRoomCreations |-> globalRoomCreations,
                      rooms |-> rooms, promoted |-> FALSE, roomId |-> NullRoom,
                      limiter |-> "not called"]
        limited == [untouched EXCEPT
                      !.rateLimit = rl.rateLimit,
                      !.suspiciousIPs = rl.suspiciousIPs,
                      !.timers = rl.timers,
                      !.promoted = rl.promoted,
                      !.limiter = IF rl.ok THEN "allow" ELSE "deny"]
        same == IF early THEN limited ELSE untouched
    IN
    IF ~TokenKnown(store, ip, csrfToken) THEN same
    ELSE
    LET tokenData == store[csrfToken]
        taken == [same EXCEPT !.csrfTokens = ConsumeToken(store, csrfToken)]
        tokenAge == now - tokenData.createdAt
    IN
    IF tokenAge > CSRF_TOKEN_LIFETIME
        THEN [taken EXCEPT !.error = "Token expired"]
    ELSE IF tokenAge < TOKEN_MIN_AGE
        THEN [taken EXCEPT !.error = "Too fast",
                           !.suspiciousIPs = @ \cup {ip}]
    ELSE IF ~isValidRequest(req)
        THEN [taken EXCEPT !.error = "Forbidden",
                           !.suspiciousIPs = @ \cup {ip}]
    ELSE
    LET checked == [limited EXCEPT !.csrfTokens = taken.csrfTokens] IN
    IF ~rl.ok
        THEN [checked EXCEPT !.status = 429, !.error = "Too many requests"]
    ELSE IF AtCapacity
        THEN [checked EXCEPT !.status = 503, !.error = "Room limit reached"]
    ELSE
    LET recent == RecentCreations(globalRoomCreations, now)
        counted == [checked EXCEPT !.globalRoomCreations = recent]
    IN
    IF Len(recent) >= GLOBAL_MAX_ROOMS_PER_HOUR
        THEN [counted EXCEPT !.status = 429, !.error = "Global limit reached"]
    ELSE [counted EXCEPT
             !.status = 200, !.error = "",
             !.globalRoomCreations = Append(recent, now),
             !.rooms = MapSet(rooms, roomId, NewRoom(roomId, Draw("admin"))),
             !.roomId = roomId]

\* The handler's outcome on the server's token store.
CreateRoomSteps(ip, csrfToken, req, roomId, early) ==
    CreateRoomOn(csrfTokens, ip, csrfToken, req, roomId, early)

\* Variant: the rate check comes first.
CreateRoomOutcome_rate_check_first(ip, csrfToken, req, roomId) ==
    CreateRoomSteps(ip, csrfToken, req, roomId, TRUE)

CreateRoomOutcome(ip, csrfToken, req, roomId) ==
    CreateRoomSteps(ip, csrfToken, req, roomId, FALSE)

CreateRoom(ip, csrfToken, req, roomId) ==
    LET out == CreateRoomOutcome(ip, csrfToken, req, roomId) IN
    /\ csrfTokens' = out.csrfTokens
    /\ suspiciousIPs' = out.suspiciousIPs
    /\ rateLimit' = out.rateLimit
    /\ timers' = out.timers
    /\ globalRoomCreations' = out.globalRoomCreations
    /\ rooms' = out.rooms
    /\ uuids' = IF out.status = 200 THEN [uuids EXCEPT !.admin = @ + 1] ELSE uuids
    /\ last' = [op |-> "create-room", ip |-> ip, token |-> csrfToken,
                issuedTo |-> IF csrfToken \in DOMAIN csrfTokens
                             THEN csrfTokens[csrfToken].ip ELSE NoIP,
                status |-> out.status, error |-> out.error,
                roomId |-> out.roomId, promoted |-> out.promoted,
                limiter |-> out.limiter]
    /\ hist' = [hist EXCEPT
           !.consumed = IF csrfToken \in DOMAIN csrfTokens
                        THEN @ \cup {csrfToken} ELSE @,
           !.promotedAt = IF out.promoted THEN MapSet(@, ip, now) ELSE @,
           !.tokenBlocked = IF out.error \in {"Too fast", "Forbidden"}
                            THEN @ \cup {ip} ELSE @,
           !.unswept =
               LET called == IF out.limiter = "not called" THEN hist.unswept
                             ELSE UnsweptAfterCall(ip, out.limiter = "allow")
               IN  IF out.error \in {"Too fast", "Forbidden"}
                   THEN [called EXCEPT !.suspiciousIPs = @ \cup {ip}]
                   ELSE called,
           !.calls = IF out.limiter = "not called" THEN @
                     ELSE MapSet(@, ip,
                            Append(IF ip \in DOMAIN @ THEN @[ip] ELSE <<>>,
                                   [t |-> now, ok |-> out.limiter = "allow"])),
           !.creations = IF out.status = 200 THEN Append(@, now) ELSE @,
           !.appended = IF out.status = 200 THEN MapSet(@, roomId, <<>>) ELSE @,
           !.emptySince = IF out.status = 200 THEN MapSet(@, roomId, now) ELSE @]
    /\ sent' = <<>>
    /\ UNCHANGED <<now, clients, rateSweepDue, roomSweepDue, ticks>>

(***************************************************************************)
(* Timers.                                                                 *)
(***************************************************************************)
\* A setTimeout callback: suspiciousIPs.delete(ip) or csrfTokens.delete(token).
\* The runtime runs the callbacks that are due in the order of their due times.
TimerFire(t) ==
    /\ t \in timers
    /\ now >= t.due
    /\ \A u \in timers : t.due <= u.due
    /\ timers' = timers \ {t}
    /\ suspiciousIPs' = IF t.kind = "unblock" THEN suspiciousIPs \ {t.key}
                        ELSE suspiciousIPs
    /\ csrfTokens' = IF t.kind = "csrf" THEN MapDelete(csrfTokens, t.key)
                     ELSE csrfTokens
    /\ last' = [op |-> "timer", kind |-> t.kind, key |-> t.key]
    /\ hist' = IF t.kind = "unblock"
               THEN [hist EXCEPT !.unswept.suspiciousIPs = @ \ {t.key}]
               ELSE hist
    /\ sent' = <<>>
    /\ UNCHANGED <<now, rooms, clients, rateLimit, globalRoomCreations,
                   rateSweepDue, roomSweepDue, uuids, ticks>>

\* Variant: the sweep deletes every record.
SweptRateLimit_every_record == EmptyMap

\* The rate-record sweep keeps the records whose window has not elapsed.
SweptRateLimit ==
    [ip \in {i \in DOMAIN rateLimit : ~(now > rateLimit[i].resetTime)}
        |-> rateLimit[ip]]

RateSweep ==
    /\ now >= rateSweepDue
    /\ rateLimit' = SweptRateLimit
    /\ rateSweepDue' = now + RATE_LIMIT_WINDOW
    /\ last' = [op |-> "rate-sweep"]
    /\ sent' = <<>>
    /\ UNCHANGED <<now, rooms, clients, suspiciousIPs, globalRoomCreations,
                   csrfTokens, timers, roomSweepDue, uuids, ticks, hist>>

\* Variant: the sweep does not look at the participant map.
RoomExpired_ignoring_participants(room) ==
    now - room.createdAt > EMPTY_ROOM_TIMEOUT

\* The room-expiry sweep's test for one room.
RoomExpired(room) ==
    /\ Len(room.participants) = 0
    /\ Truthy(room.lastEmptyTime)
    /\ now - room.lastEmptyTime > EMPTY_ROOM_TIMEOUT

RoomSweep ==
    /\ now >= roomSweepDue
    /\ rooms' = [r \in {x \in DOMAIN rooms : ~RoomExpired(rooms[x])} |-> rooms[r]]
    /\ roomSweepDue' = now + ROOM_SWEEP_INTERVAL
    /\ last' = [op |-> "room-sweep", before |-> DOMAIN rooms,
                expired |-> {x \in DOMAIN rooms : RoomExpired(rooms[x])}]
    /\ sent' = <<>>
    /\ UNCHANGED <<now, clients, rateLimit, suspiciousIPs, globalRoomCreations,
                   csrfTokens, timers, rateSweepDue, uuids, ticks, hist>>

\* The clock advances by d milliseconds.  The event loop runs a callback
\* that is due before it lets more time pass: handlers may still run at the
\* instant a timer is due, before its callback, but the clock does not move
\* on over a due timer.
Tick(d, maxTicks) ==
    /\ ticks < maxTicks
    /\ \A t \in timers : t.due > now
    /\ rateSweepDue > now
    /\ roomSweepDue > now
    /\ now' = now + d
    /\ ticks' = ticks + 1
    /\ last' = [op |-> "tick"]
    /\ sent' = <<>>
    /\ UNCHANGED <<rooms, clients, rateLimit, suspiciousIPs, globalRoomCreations,
                   csrfTokens, timers, rateSweepDue, roomSweepDue, uuids, hist>>

\* The clock advances by d milliseconds while the event loop is busy: a
\* callback that is due has to wait, setTimeout and setInterval promising
\* only that it does not run early.
Lag(d, maxTicks) ==
    /\ ticks < maxTicks
    /\ now' = now + d
    /\ ticks' = ticks + 1
    /\ last' = [op |-> "lag"]
    /\ sent' = <<>>
    /\ UNCHANGED <<rooms, clients, rateLimit, suspiciousIPs, globalRoomCreations,
                   csrfTokens, timers, rateSweepDue, roomSweepDue, uuids, hist>>

(***************************************************************************)
(* WebSocket side: delivery.                                               *)
(***************************************************************************)
\* broadcast's excludeClientId = null
NoClient == 0

\* room.participants is a Map keyed by client id, kept here as the array of
\* its values in insertion order.
PartIds(parts) == {parts[i].id : i \in 1 .. Len(parts)}

PartSet(parts, id, p) ==
    IF id \in PartIds(parts)
    THEN [i \in 1 .. Len(parts) |-> IF parts[i].id = id THEN p ELSE parts[i]]
    ELSE Append(parts, p)

\* Variant: the entry is not deleted.
PartDelete_keeps_entry(parts, id) == parts

PartDelete(parts, id) == SelectSeq(parts, LAMBDA p : p.id # id)

IsOpen(cls, id) == id \in DOMAIN cls /\ cls[id].readyState = "OPEN"

\* Variant: the transport's readyState is not looked at.
sendToClient_any_state(cls, clientId, message) ==
    IF clientId \in DOMAIN cls THEN <<[to |-> clientId, msg |-> message]>> ELSE <<>>

\* sendToClient(clientId, message): the sends it performs
sendToClient(cls, clientId, message) ==
    IF IsOpen(cls, clientId) THEN <<[to |-> clientId, msg |-> message]>> ELSE <<>>

\* Variant: excludeClientId is not looked at.
broadcast_without_exclusion(rms, cls, roomId, message, excludeClientId) ==
    IF roomId \notin DOMAIN rms THEN <<>>
    ELSE LET to == SelectSeq(rms[roomId].participants,
                     LAMBDA p : IsOpen(cls, p.id))
         IN  [i \in 1 .. Len(to) |-> [to |-> to[i].id, msg |-> message]]

\* broadcast(roomId, message, excludeClientId): the sends it performs, in order
broadcast(rms, cls, roomId, message, excludeClientId) ==
    IF roomId \notin DOMAIN rms THEN <<>>
    ELSE LET to == SelectSeq(rms[roomId].participants,
                     LAMBDA p : /\ ~(excludeClientId # NoClient /\ p.id = excludeClientId)
                                /\ IsOpen(cls, p.id))
         IN  [i \in 1 .. Len(to) |-> [to |-> to[i].id, msg |-> message]]

(***************************************************************************)
(* WebSocket side: connection events.                                      *)
(***************************************************************************)
Connection(maxClients) ==
    /\ uuids.client < maxClients
    /\ LET clientId == Draw("client") IN
        /\ clients' = MapSet(clients, clientId,
               [readyState |-> "OPEN", roomId |-> NullRoom,
                nickname |-> NullNick, userKey |-> 0])
        /\ uuids' = [uuids EXCEPT !.client = clientId]
        /\ sent' = <<[to |-> clientId,
                      msg |-> [type |-> "connected", clientId |-> clientId]]>>
        /\ last' = [op |-> "connection", client |-> clientId]
    /\ UNCHANGED <<now, rooms, rateLimit, suspiciousIPs, globalRoomCreations,
                   csrfTokens, timers, rateSweepDue, roomSweepDue, ticks, hist>>

\* The transport leaves the OPEN state; its 'close' event comes later.
SocketClosing(clientId) ==
    /\ clientId \in DOMAIN clients
    /\ clients[clientId].readyState = "OPEN"
    /\ clients' = [clients EXCEPT ![clientId].readyState = "CLOSING"]
    /\ sent' = <<>>
    /\ last' = [op |-> "closing", client |-> clientId]
    /\ UNCHANGED <<now, rooms, rateLimit, suspiciousIPs, globalRoomCreations,
                   csrfTokens, timers, rateSweepDue, roomSweepDue, uuids,
                   ticks, hist>>

\* ws.on('close')
Close(clientId) ==
    /\ clientId \in DOMAIN clients
    /\ LET client == clients[clientId]
           closed == [clients EXCEPT ![clientId].readyState = "CLOSED"]
           inRoom == client.roomId # NullRoom /\ client.roomId \in DOMAIN rooms
           left == PartDelete(rooms[client.roomId].participants, clientId)
           rms == IF inRoom
                  THEN [rooms EXCEPT
                          ![client.roomId].participants = left,
                          ![client.roomId].lastEmptyTime =
                              IF Len(left) = 0 THEN now ELSE @]
                  ELSE rooms
       IN
        /\ rooms' = rms
        /\ sent' = IF inRoom
                   THEN broadcast(rms, closed, client.roomId,
                            [type |-> "user-left", clientId |-> clientId,
                             nickname |-> client.nickname], NoClient)
                        \o
                        broadcast(rms, closed, client.roomId,
                            [type |-> "participants-update",
                             participants |-> rms[client.roomId].participants],
                            NoClient)
                   ELSE <<>>
        /\ last' = [op |-> "close", client |-> clientId,
                    room |-> IF inRoom THEN client.roomId ELSE NullRoom]
        /\ hist' = IF inRoom /\ Len(rooms[client.roomId].participants) > 0
                              /\ Len(left) = 0
                   THEN [hist EXCEPT !.emptySince[client.roomId] = now]
                   ELSE hist
    /\ clients' = MapDelete(clients, clientId)
    /\ UNCHANGED <<now, rateLimit, suspiciousIPs, globalRoomCreations,
                   csrfTokens, timers, rateSweepDue, roomSweepDue, uuids,
                   ticks>>

(***************************************************************************)
(* handleMessage(clientId, message), one action per message type.          *)
(***************************************************************************)
httpVars == <<rateLimit, suspiciousIPs, globalRoomCreations, csrfTokens,
              timers, rateSweepDue, roomSweepDue>>

NewParticipant(clientId, nickname, userKey) ==
    [id |-> clientId, nickname |-> nickname, userKey |-> userKey,
     joinedAt |-> now, isMuted |-> FALSE, isDeafened |-> FALSE,
     isScreenSharing |-> FALSE]

\* Variant: the error goes to every open connection.
RoomNotFound_told_to_all(cls, clientId) ==
    LET open == {c \in DOMAIN cls : IsOpen(cls, c)}
        order == CHOOSE q \in [1 .. Cardinality(open) -> open] :
                    \A i, j \in 1 .. Cardinality(open) : i # j => q[i] # q[j]
    IN  [i \in 1 .. Cardinality(open) |->
            [to |-> order[i],
             msg |-> [type |-> "error", message |-> "room not found"]]]

\* join-room for an id that is not in the registry: the reply
RoomNotFound(cls, clientId) ==
    sendToClient(cls, clientId, [type |-> "error", message |-> "room not found"])

\* case 'join-room'
JoinRoom(clientId, roomId, nickname, maxJoins) ==
    /\ clientId \in DOMAIN clients
    /\ uuids.key < maxJoins
    /\ IF roomId \notin DOMAIN rooms
       THEN /\ sent' = RoomNotFound(clients, clientId)
            /\ last' = [op |-> "join-room", client |-> clientId,
                        room |-> roomId, ok |-> FALSE]
            /\ UNCHANGED <<rooms, clients, uuids, hist>>
       ELSE LET userKey == Draw("key")
                cls == [clients EXCEPT ![clientId].roomId = roomId,
                                       ![clientId].nickname = nickname,
                                       ![clientId].userKey = userKey]
                rms == [rooms EXCEPT
                          ![roomId].participants =
                              PartSet(@, clientId,
                                      NewParticipant(clientId, nickname, userKey)),
                          ![roomId].lastEmptyTime = NullTime]
            IN  /\ clients' = cls
                /\ rooms' = rms
                /\ uuids' = [uuids EXCEPT !.key = userKey]
                /\ sent' = sendToClient(cls, clientId,
                               [type |-> "joined", roomId |-> roomId,
                                userKey |-> userKey,
                                participants |-> rms[roomId].participants,
                                messages |-> SliceLast(rms[roomId].messages,
                                                       CHAT_HISTORY_SLICE)])
                           \o
                           broadcast(rms, cls, roomId,
                               [type |-> "user-joined",
                                user |-> [id |-> clientId, nickname |-> nickname,
                                          userKey |-> userKey]],
                               clientId)
                           \o
                           broadcast(rms, cls, roomId,
                               [type |-> "participants-update",
                                participants |-> rms[roomId].participants],
                               NoClient)
                /\ last' = [op |-> "join-room", client |-> clientId,
                            room |-> roomId, ok |-> TRUE]
                /\ hist' = [hist EXCEPT !.emptySince[roomId] = NullTime]
    /\ UNCHANGED <<now, ticks>>
    /\ UNCHANGED httpVars

\* Variant: the trim keeps the oldest messages, slice(0, 100).
PushMessage_keep_oldest(messages, chatMessage) ==
    LET pushed == Append(messages, chatMessage) IN
    IF Len(pushed) > CHAT_HARD_CAP THEN SubSeq(pushed, 1, CHAT_TRIM_SIZE)
    ELSE pushed

\* room.messages after push and the trim of an over-long log
PushMessage(messages, chatMessage) ==
    LET pushed == Append(messages, chatMessage) IN
    IF Len(pushed) > CHAT_HARD_CAP THEN SliceLast(pushed, CHAT_TRIM_SIZE)
    ELSE pushed

\* case 'chat-message'
ChatMessage(clientId, roomId, content, image, maxChat) ==
    /\ clientId \in DOMAIN clients
    /\ uuids.msg < maxChat
    /\ IF roomId \notin DOMAIN rooms
       THEN /\ sent' = <<>>
            /\ last' = [op |-> "chat-message", client |-> clientId,
                        room |-> roomId, ok |-> FALSE]
            /\ UNCHANGED <<rooms, uuids, hist>>
       ELSE LET chatMessage == [id |-> Draw("msg"), senderId |-> clientId,
                                senderName |-> clients[clientId].nickname,
                                content |-> content, image |-> image,
                                timestamp |-> now]
                rms == [rooms EXCEPT
                          ![roomId].messages = PushMessage(@, chatMessage)]
            IN  /\ rooms' = rms
                /\ uuids' = [uuids EXCEPT !.msg = @ + 1]
                /\ hist' = [hist EXCEPT
                              !.appended[roomId] = Append(@, chatMessage)]
                /\ sent' = broadcast(rms, clients, roomId,
                               [type |-> "chat-message", message |-> chatMessage],
                               NoClient)
                /\ last' = [op |-> "chat-message", client |-> clientId,
                            room |-> roomId, ok |-> TRUE]
    /\ UNCHANGED <<now, clients, ticks>>
    /\ UNCHANGED httpVars

\* The message a relay case forwards to its target.
RelayMessage(type, clientId, payload) ==
    CASE type = "webrtc-offer" ->
            [type |-> "webrtc-offer", senderId |-> clientId,
             senderName |-> clients[clientId].nickname, offer |-> payload]
      [] type = "webrtc-answer" ->
            [type |-> "webrtc-answer", senderId |-> clientId, answer |-> payload]
      [] type = "webrtc-ice-candidate" ->
            [type |-> "webrtc-ice-candidate", senderId |-> clientId,
             candidate |-> payload]
      [] type = "request-screen" ->
            [type |-> "screen-requested", requesterId |-> clientId]

RelayTypes == {"webrtc-offer", "webrtc-answer", "webrtc-ice-candidate",
               "request-screen"}

\* cases 'webrtc-offer', 'webrtc-answer', 'webrtc-ice-candidate', 'request-screen'
Relay(type, clientId, targetId, payload) ==
    /\ clientId \in DOMAIN clients
    /\ sent' = sendToClient(clients, targetId, RelayMessage(type, clientId, payload))
    /\ last' = [op |-> type, client |-> clientId, target |-> targetId]
    /\ UNCHANGED <<now, rooms, clients, uuids, ticks, hist>>
    /\ UNCHANGED httpVars

PresenceTypes == {"toggle-mute", "toggle-deafen", "screen-share-started",
                  "screen-share-stopped"}

\* Variant: every presence message writes the mute flag.
PresenceUpdate_mute_only(type, p, value) == [p EXCEPT !.isMuted = value]

\* The participant record after a presence message, and the event broadcast.
PresenceUpdate(type, p, value) ==
    CASE type = "toggle-mute" -> [p EXCEPT !.isMuted = value]
      [] type = "toggle-deafen" -> [p EXCEPT !.isDeafened = value]
      [] type = "screen-share-started" -> [p EXCEPT !.isScreenSharing = TRUE]
      [] type = "screen-share-stopped" -> [p EXCEPT !.isScreenSharing = FALSE]

PresenceEvent(type, clientId, value) ==
    CASE type = "toggle-mute" ->
            [type |-> "user-mute-changed", clientId |-> clientId, isMuted |-> value]
      [] type = "toggle-deafen" ->
            [type |-> "user-deafen-changed", clientId |-> clientId,
             isDeafened |-> value]
      [] type = "screen-share-started" ->
            [type |-> "screen-share-started", clientId |-> clientId,
             nickname |-> clients[clientId].nickname]
      [] type = "screen-share-stopped" ->
            [type |-> "screen-share-stopped", clientId |-> clientId]

\* cases 'toggle-mute', 'toggle-deafen', 'screen-share-started',
\* 'screen-share-stopped'
Presence(type, clientId, value) ==
    /\ clientId \in DOMAIN clients
    /\ LET roomId == clients[clientId].roomId
           found == /\ roomId \in DOMAIN rooms
                    /\ clientId \in PartIds(rooms[roomId].participants)
           rms == [rooms EXCEPT ![roomId].participants =
                      [i \in 1 .. Len(@) |->
                          IF @[i].id = clientId
                          THEN PresenceUpdate(type, @[i], value) ELSE @[i]]]
       IN IF found
          THEN /\ rooms' = rms
               /\ sent' = broadcast(rms, clients, roomId,
                              PresenceEvent(type, clientId, value), NoClient)
          ELSE /\ sent' = <<>>
               /\ UNCHANGED rooms
    /\ last' = [op |-> type, client |-> clientId, value |-> value]
    /\ UNCHANGED <<now, clients, uuids, ticks, hist>>
    /\ UNCHANGED httpVars

\* Any other message type, and a payload JSON.parse rejects: nothing happens.
OtherMessage(clientId) ==
    /\ clientId \in DOMAIN clients
    /\ sent' = <<>>
    /\ last' = [op |-> "ignored", client |-> clientId]
    /\ UNCHANGED <<now, rooms, clients, uuids, ticks, hist>>
    /\ UNCHANGED httpVars

(***************************************************************************)
(* checkRateLimit(ip) on its own: the call create-room makes once the      *)
(* token checks have passed, seen from the limiter's state.                *)
(***************************************************************************)
RateCheck(ip) ==
    LET rl == checkRateLimit(ip) IN
    /\ rateLimit' = rl.rateLimit
    /\ suspiciousIPs' = rl.suspiciousIPs
    /\ timers' = rl.timers
    /\ last' = [op |-> "checkRateLimit", ip |-> ip, ok |-> rl.ok,
                promoted |-> rl.promoted]
    /\ hist' = [hist EXCEPT
           !.promotedAt = IF rl.promoted THEN MapSet(@, ip, now) ELSE @,
           !.unswept = UnsweptAfterCall(ip, rl.ok)]
    /\ sent' = <<>>
    /\ UNCHANGED <<now, rooms, clients, globalRoomCreations, csrfTokens,
                   rateSweepDue, roomSweepDue, uuids, ticks>>

(***************************************************************************)
(* Initial state: the server has just started.                             *)
(***************************************************************************)
Init ==
    /\ now = 0
    /\ rooms = EmptyMap
    /\ clients = EmptyMap
    /\ rateLimit = EmptyMap
    /\ suspiciousIPs = {}
    /\ globalRoomCreations = <<>>
    /\ csrfTokens = EmptyMap
    /\ timers = {}
    /\ rateSweepDue = RATE_LIMIT_WINDOW
    /\ roomSweepDue = ROOM_SWEEP_INTERVAL
    /\ uuids = [token |-> 0, client |-> 0, key |-> 0, msg |-> 0, admin |-> 0]
    /\ sent = <<>>
    /\ last = [op |-> "start"]
    /\ ticks = 0
    /\ hist = [appended |-> EmptyMap, issued |-> EmptyMap, consumed |-> {},
               promotedAt |-> EmptyMap,
               tokenBlocked |-> {}, calls |-> EmptyMap, creations |-> <<>>,
               emptySince |-> EmptyMap,
               unswept |-> [rateLimit |-> EmptyMap, suspiciousIPs |-> {},
                            agree |-> TRUE]]

(***************************************************************************)
(* Specifications.  Each draws the requests, the messages and the clock    *)
(* steps from sets sized for the part of the server it exercises.  A       *)
(* client asks for a token only while the store holds fewer than the       *)
(* specification's MaxLive tokens.                                         *)
(***************************************************************************)

\* Spec: the rooms and the WebSocket protocol.  One browser creates rooms,
\* waiting out the token's minimum age; connections join, relay and close.
SpecMaxTokens == 2
SpecMaxClients == 2
SpecMaxJoins == 3
SpecMaxTicks == 1
SpecRooms == {1, 2}

OldEnough(t) == now - csrfTokens[t].createdAt >= TOKEN_MIN_AGE

Next ==
    \/ IssueToken(1, SpecMaxTokens)
    \/ \E t \in DOMAIN csrfTokens, r \in SpecRooms :
          /\ OldEnough(t)
          /\ CreateRoom(csrfTokens[t].ip, t, BrowserRequest, r)
    \/ Tick(TOKEN_MIN_AGE, SpecMaxTicks)
    \/ Connection(SpecMaxClients)
    \/ \E c \in DOMAIN clients : SocketClosing(c)
    \/ \E c \in DOMAIN clients : Close(c)
    \/ \E c \in DOMAIN clients, r \in SpecRooms :
          JoinRoom(c, r, "ann", SpecMaxJoins)
    \/ \E type \in RelayTypes, c \in DOMAIN clients, target \in 1 .. SpecMaxClients :
          Relay(type, c, target, "sdp")
    \/ \E c \in DOMAIN clients : OtherMessage(c)

Spec == Init /\ [][Next]_vars

\* SpecDistinct: as Spec, with every room id drawn by create-room different
\* from the ids in the registry.
NextDistinct ==
    \/ IssueToken(1, SpecMaxTokens)
    \/ \E t \in DOMAIN csrfTokens, r \in SpecRooms \ DOMAIN rooms :
          /\ OldEnough(t)
          /\ CreateRoom(csrfTokens[t].ip, t, BrowserRequest, r)
    \/ Tick(TOKEN_MIN_AGE, SpecMaxTicks)
    \/ Connection(SpecMaxClients)
    \/ \E c \in DOMAIN clients : SocketClosing(c)
    \/ \E c \in DOMAIN clients : Close(c)
    \/ \E c \in DOMAIN clients, r \in SpecRooms :
          JoinRoom(c, r, "ann", SpecMaxJoins)
    \/ \E type \in RelayTypes, c \in DOMAIN clients, target \in 1 .. SpecMaxClients :
          Relay(type, c, target, "sdp")
    \/ \E c \in DOMAIN clients : OtherMessage(c)

SpecDistinct == Init /\ [][NextDistinct]_vars

\* SpecChat: one room and a long conversation.
ChatMaxMsgs == 203
ChatMaxClients == 1
ChatMaxJoins == 1

NextChat ==
    \/ IssueToken(1, 1)
    \/ \E t \in DOMAIN csrfTokens : CreateRoom(csrfTokens[t].ip, t, BrowserRequest, 1)
    \/ Tick(TOKEN_MIN_AGE, 1)
    \/ Connection(ChatMaxClients)
    \/ \E c \in DOMAIN clients : JoinRoom(c, 1, "ann", ChatMaxJoins)
    \/ \E c \in DOMAIN clients : ChatMessage(c, 1, "hi", "", ChatMaxMsgs)

SpecChat == Init /\ [][NextChat]_vars

\* SpecToken: the token store behind create-room.  Requests present any
\* token value issued so far, none, or a forged one, from any address, with
\* browser or script headers.  The clock may move on by a millisecond over
\* a timer that is due.
TokenMaxTokens == 2
TokenMaxLive == 1
TokenMaxTicks == 3
TokenSteps == {1000, 300000}
TokenIPs == {1, 2}

NextToken ==
    \/ \E ip \in TokenIPs :
          /\ Cardinality(DOMAIN csrfTokens) < TokenMaxLive
          /\ IssueToken(ip, TokenMaxTokens)
    \/ \E ip \in TokenIPs, t \in {NoHeader, ForgedToken} \cup (1 .. uuids.token),
          req \in {BrowserRequest, ScriptRequest} : CreateRoom(ip, t, req, 1)
    \/ \E t \in timers : TimerFire(t)
    \/ RateSweep
    \/ RoomSweep
    \/ \E d \in TokenSteps : Tick(d, TokenMaxTicks)
    \/ /\ \E t \in timers : now >= t.due
       /\ Lag(1, TokenMaxTicks)

SpecToken == Init /\ [][NextToken]_vars

\* SpecGuard: browsers creating rooms over a few seconds, each request
\* presenting a token from the store from the address it was issued to.
GuardMaxTokens == 5
GuardMaxLive == 1
GuardMaxTicks == 6
GuardIPs == {1, 2}

NextGuard ==
    \/ \E ip \in GuardIPs :
          /\ Cardinality(DOMAIN csrfTokens) < GuardMaxLive
          /\ IssueToken(ip, GuardMaxTokens)
    \/ \E t \in DOMAIN csrfTokens : CreateRoom(csrfTokens[t].ip, t, BrowserRequest, 1)
    \/ Tick(TOKEN_MIN_AGE, GuardMaxTicks)

SpecGuard == Init /\ [][NextGuard]_vars

\* SpecLimiter: the rate limiter alone, over more than the block duration:
\* calls of checkRateLimit, the sweeps, the unblock timers.
LimiterMaxTicks == 6
LimiterSteps == {2000, 60000, 3500000}
LimiterIPs == {1}

NextLimiter ==
    \/ \E ip \in LimiterIPs : RateCheck(ip)
    \/ \E t \in timers : TimerFire(t)
    \/ RateSweep
    \/ RoomSweep
    \/ \E d \in LimiterSteps : Tick(d, LimiterMaxTicks)

SpecLimiter == Init /\ [][NextLimiter]_vars

\* SpecSweep: two addresses call checkRateLimit while windows elapse, the
\* sweep runs, and a block is served out.
SweepMaxTicks == 4
SweepSteps == {30000, 60000, 3600000}
SweepIPs == {1, 2}

NextSweep ==
    \/ \E ip \in SweepIPs : RateCheck(ip)
    \/ \E t \in timers : TimerFire(t)
    \/ RateSweep
    \/ RoomSweep
    \/ \E d \in SweepSteps : Tick(d, SweepMaxTicks)

SpecSweep == Init /\ [][NextSweep]_vars

\* SpecExpiry: rooms emptying and expiring, over more than the empty-room
\* timeout.
ExpiryMaxTokens == 2
ExpiryMaxClients == 1
ExpiryMaxJoins == 2
ExpiryMaxTicks == 3
ExpirySteps == {TOKEN_MIN_AGE, ROOM_SWEEP_INTERVAL, EMPTY_ROOM_TIMEOUT}
ExpiryRooms == {1, 2}

NextExpiry ==
    \/ IssueToken(1, ExpiryMaxTokens)
    \/ \E t \in DOMAIN csrfTokens, r \in ExpiryRooms :
          /\ OldEnough(t)
          /\ CreateRoom(csrfTokens[t].ip, t, BrowserRequest, r)
    \/ \E t \in timers : TimerFire(t)
    \/ RateSweep
    \/ RoomSweep
    \/ \E d \in ExpirySteps : Tick(d, ExpiryMaxTicks)
    \/ Connection(ExpiryMaxClients)
    \/ \E c \in DOMAIN clients : Close(c)
    \/ \E c \in DOMAIN clients, r \in ExpiryRooms :
          JoinRoom(c, r, "ann", ExpiryMaxJoins)

SpecExpiry == Init /\ [][NextExpiry]_vars

\* SpecCapacity: two browsers filling the registry, each fetching a token,
\* waiting a second and posting.  Room ids are drawn in the order of their
\* first use: create-room gets an id that is in the registry already, or the
\* next unused one.
CapacityMaxTokens == 7
CapacityMaxLive == 1
CapacityMaxTicks == 7
CapacityIPs == {1, 2}

NextCapacity ==
    \/ \E ip \in CapacityIPs :
          /\ Cardinality(DOMAIN csrfTokens) < CapacityMaxLive
          /\ IssueToken(ip, CapacityMaxTokens)
    \/ \E t \in DOMAIN csrfTokens, r \in 1 .. (Cardinality(DOMAIN rooms) + 1) :
          /\ OldEnough(t)
          /\ CreateRoom(csrfTokens[t].ip, t, BrowserRequest, r)
    \/ /\ \E t \in DOMAIN csrfTokens : ~OldEnough(t)
       /\ Tick(TOKEN_MIN_AGE, CapacityMaxTicks)

SpecCapacity == Init /\ [][NextCapacity]_vars

\* SpecVelocity: two browsers creating rooms for more than twice the
\* empty-room timeout, so that the registry fills, expires and fills again
\* inside one hour.  A browser fetches a token, waits a second and posts;
\* the second browser starts when the first has used its quota, and both
\* pause for the empty-room timeout when the registry is full.  Requests
\* arrive when no timer is due.  Every room id drawn is a new one.
VelocityMaxTokens == 11
VelocityMaxLive == 1
VelocityMaxTicks == 13
VelocityPause == EMPTY_ROOM_TIMEOUT + TOKEN_MIN_AGE
VelocityIPs == {1, 2}

Idle ==
    /\ \A t \in timers : now < t.due
    /\ now < rateSweepDue
    /\ now < roomSweepDue

QuotaUsed(ip) ==
    /\ ip \in DOMAIN rateLimit
    /\ rateLimit[ip].count >= RATE_LIMIT_MAX_REQUESTS
    /\ now <= rateLimit[ip].resetTime

NextVelocity ==
    \/ \E ip \in VelocityIPs :
          /\ Idle
          /\ \A other \in VelocityIPs : other < ip => QuotaUsed(other)
          /\ Cardinality(DOMAIN csrfTokens) < VelocityMaxLive
          /\ IssueToken(ip, VelocityMaxTokens)
    \/ \E t \in DOMAIN csrfTokens :
          /\ Idle
          /\ OldEnough(t)
          /\ CreateRoom(csrfTokens[t].ip, t, BrowserRequest, Draw("admin"))
    \/ /\ Idle
       /\ CreateRoom(1, ForgedToken, BrowserRequest, Draw("admin"))
    \/ \E t \in timers : TimerFire(t)
    \/ RateSweep
    \/ RoomSweep
    \/ /\ \E t \in DOMAIN csrfTokens : ~OldEnough(t)
       /\ Tick(TOKEN_MIN_AGE, VelocityMaxTicks)
    \/ /\ Cardinality(DOMAIN rooms) = MAX_ROOMS
       /\ csrfTokens = EmptyMap
       /\ Tick(VelocityPause, VelocityMaxTicks)

SpecVelocity == Init /\ [][NextVelocity]_vars

\* SpecPresence: connections joining two rooms and sending presence
\* messages.
PresenceMaxTokens == 2
PresenceMaxClients == 2
PresenceMaxJoins == 2
PresenceMaxTicks == 1
PresenceRooms == {1, 2}

NextPresence ==
    \/ IssueToken(1, PresenceMaxTokens)
    \/ \E t \in DOMAIN csrfTokens, r \in PresenceRooms :
          /\ OldEnough(t)
          /\ CreateRoom(csrfTokens[t].ip, t, BrowserRequest, r)
    \/ Tick(TOKEN_MIN_AGE, PresenceMaxTicks)
    \/ Connection(PresenceMaxClients)
    \/ \E c \in DOMAIN clients : Close(c)
    \/ \E c \in DOMAIN clients, r \in PresenceRooms :
          JoinRoom(c, r, "ann", PresenceMaxJoins)
    \/ \E type \in PresenceTypes, c \in DOMAIN clients, value \in BOOLEAN :
          Presence(type, c, value)

SpecPresence == Init /\ [][NextPresence]_vars

\* SpecJoin: one room with a chat log longer than the history slice; the
\* first connection does the talking, connections join, rejoin and close.
JoinMaxClients == 2
JoinMaxJoins == 3
JoinMaxMsgs == 52

NextJoin ==
    \/ IssueToken(1, 1)
    \/ \E t \in DOMAIN csrfTokens :
          /\ OldEnough(t)
          /\ CreateRoom(csrfTokens[t].ip, t, BrowserRequest, 1)
    \/ Tick(TOKEN_MIN_AGE, 1)
    \/ Connection(JoinMaxClients)
    \/ \E c \in DOMAIN clients : SocketClosing(c)
    \/ \E c \in DOMAIN clients : Close(c)
    \/ \E c \in DOMAIN clients : JoinRoom(c, 1, "ann", JoinMaxJoins)
    \/ \E c \in DOMAIN clients \cap {1} :
          ChatMessage(c, 1, "hi", "", JoinMaxMsgs)

SpecJoin == Init /\ [][NextJoin]_vars

(***************************************************************************)
(* Properties.                                                             *)
(***************************************************************************)
\* The connections currently bound to room r: in the connection registry,
\* with r as room binding.
Bound(r) == {c \in DOMAIN clients : clients[c].roomId = r}

\* The rosters the last handler broadcast.
RostersSent ==
    {sent[i].msg.participants :
        i \in {k \in 1 .. Len(sent) : sent[k].msg.type = "participants-update"}}

\* C1: after a join-room or a close that affects a room, every roster the
\* handler broadcast holds exactly the connections now bound to that room.
C1_RosterIsBoundSet ==
    (last.op \in {"join-room", "close"} /\ last.room \in DOMAIN rooms)
        => \A roster \in RostersSent : PartIds(roster) = Bound(last.room)

\* C5: a relay message changes no room and no connection entry; it sends
\* nothing when its target is not an open connection of the registry, and
\* otherwise sends one message, to the target alone, that names the sender.
C5_RelayStep ==
    last'.op \in RelayTypes =>
        /\ rooms' = rooms
        /\ clients' = clients
        /\ hist' = hist
        /\ IF last'.target \in DOMAIN clients
              /\ clients[last'.target].readyState = "OPEN"
           THEN /\ Len(sent') = 1
                /\ sent'[1].to = last'.target
                /\ IF last'.op = "request-screen"
                   THEN sent'[1].msg.requesterId = last'.client
                   ELSE sent'[1].msg.senderId = last'.client
           ELSE sent' = <<>>

C5_RelayIsPureForward == [][C5_RelayStep]_vars

\* C5 witness: a relay to a target that is not in the registry sent nothing.
C5_Witness ==
    /\ last.op \in RelayTypes
    /\ last.target \notin DOMAIN clients
    /\ sent = <<>>
    /\ DOMAIN rooms # {}

\* Helpers of the properties.
IsSuffix(s, t) ==
    /\ Len(s) <= Len(t)
    /\ s = SubSeq(t, Len(t) - Len(s) + 1, Len(t))

\* C2: a room's chat log never holds more than the hard cap, and is always
\* the most recent part, in send order, of all the messages pushed to the
\* room; a push onto a full log leaves CHAT_TRIM_SIZE messages.
C2_LogStep ==
    \A r \in DOMAIN rooms' :
        /\ Len(rooms'[r].messages) <= CHAT_HARD_CAP
        /\ IsSuffix(rooms'[r].messages, hist'.appended[r])
        /\ (/\ r \in DOMAIN rooms
            /\ Len(rooms[r].messages) = CHAT_HARD_CAP
            /\ Len(hist'.appended[r]) = Len(hist.appended[r]) + 1)
           => Len(rooms'[r].messages) = CHAT_TRIM_SIZE

C2_ChatLogBounded == [][C2_LogStep]_vars

\* C2 witness: a log that was trimmed and has grown again.
C2_Witness ==
    \E r \in DOMAIN rooms :
        /\ Len(hist.appended[r]) = CHAT_HARD_CAP + 2
        /\ Len(rooms[r].messages) = CHAT_TRIM_SIZE + 1

\* C3: a token create-room has found in the store is never in the store
\* again; a request that presents it again is answered Invalid token and
\* changes neither the rooms nor the creation count.
C3_TokenStep ==
    /\ hist'.consumed \cap DOMAIN csrfTokens' = {}
    /\ (last'.op = "create-room" /\ last'.token \in hist.consumed)
        => /\ last'.error = "Invalid token"
           /\ rooms' = rooms
           /\ globalRoomCreations' = globalRoomCreations

C3_TokenSingleUse == [][C3_TokenStep]_vars

\* C3 witness: an issued token presented a second time, when its first use
\* has created no room.
C3_Witness ==
    /\ last.op = "create-room"
    /\ last.token \in hist.consumed
    /\ last.error = "Invalid token"
    /\ rooms = EmptyMap

\* C4: from the moment checkRateLimit block-lists an address and for the
\* block duration, the address is on the block list and every checkRateLimit
\* call for it is denied.
C4_BlockedForBlockDuration ==
    \A ip \in DOMAIN hist.promotedAt :
        now < hist.promotedAt[ip] + BLOCK_DURATION
            => /\ ip \in suspiciousIPs
               /\ (last.op = "checkRateLimit" /\ last.ip = ip) => ~last.ok

\* C4 witness: a denied call after the window of the promotion has elapsed
\* and the sweep has discarded the address's record, late in the block.
C4_Witness ==
    \E ip \in DOMAIN hist.promotedAt :
        /\ last.op = "checkRateLimit" /\ last.ip = ip /\ ~last.ok
        /\ ip \notin DOMAIN rateLimit
        /\ now > hist.promotedAt[ip] + BLOCK_DURATION - RATE_LIMIT_WINDOW
        /\ now < hist.promotedAt[ip] + BLOCK_DURATION

\* C8: for an address no token check has block-listed, of the rate checks
\* made within one window of the first, the first three allow and every
\* later one denies, and from the fourth on the address is block-listed.
C8_FourthRequestBlocked ==
    \A ip \in DOMAIN hist.calls :
        LET cs == hist.calls[ip] IN
        (ip \notin hist.tokenBlocked /\ now <= cs[1].t + RATE_LIMIT_WINDOW)
            => /\ \A k \in 1 .. Len(cs) : cs[k].ok <=> (k <= RATE_LIMIT_MAX_REQUESTS)
               /\ Len(cs) > RATE_LIMIT_MAX_REQUESTS => ip \in suspiciousIPs

\* C8 witness: a fifth request, two seconds after the fourth, denied.
C8_Witness ==
    \E ip \in DOMAIN hist.calls :
        LET cs == hist.calls[ip] IN
        /\ ip \notin hist.tokenBlocked
        /\ Len(cs) = 5
        /\ cs[5].t = cs[4].t + 2000
        /\ ~cs[4].ok /\ ~cs[5].ok
        /\ last.op = "create-room" /\ last.ip = ip
        /\ last.error = "Too many requests"

\* C6: after a run of the room-expiry sweep, the registry holds no room
\* whose participant map has been empty, without interruption, for longer
\* than the empty-room timeout.
C6_EmptyRoomSwept ==
    last.op = "room-sweep" =>
        \A r \in DOMAIN rooms :
            \/ hist.emptySince[r] = NullTime
            \/ now - hist.emptySince[r] <= EMPTY_ROOM_TIMEOUT

\* C7: a run of the room-expiry sweep keeps every room whose participant map
\* is not empty, unchanged, and a room it deletes has been empty for longer
\* than the empty-room timeout counted from the moment it last became empty.
C7_SweepStep ==
    last'.op = "room-sweep" =>
        \A r \in DOMAIN rooms :
            /\ Len(rooms[r].participants) > 0
                => (r \in DOMAIN rooms' /\ rooms'[r] = rooms[r])
            /\ r \notin DOMAIN rooms'
                => /\ hist.emptySince[r] # NullTime
                   /\ now - hist.emptySince[r] > EMPTY_ROOM_TIMEOUT

C7_RejoinedRoomKept == [][C7_SweepStep]_vars

\* C7 witness: a sweep has kept a room that is older than the timeout, was
\* joined, and has been empty again for less than the timeout.
C7_Witness ==
    /\ last.op = "room-sweep"
    /\ \E r \in DOMAIN rooms :
          /\ Len(rooms[r].participants) = 0
          /\ hist.emptySince[r] > rooms[r].createdAt
          /\ now - rooms[r].createdAt > EMPTY_ROOM_TIMEOUT
          /\ now - hist.emptySince[r] <= EMPTY_ROOM_TIMEOUT

\* C9: the registry never holds more than MAX_ROOMS rooms; a create-room
\* request that arrives when it holds MAX_ROOMS or more is rejected and
\* changes no room, with Room limit reached when the limiter let it pass.
C9_CapacityStep ==
    /\ Cardinality(DOMAIN rooms') <= MAX_ROOMS
    /\ (last'.op = "create-room" /\ Cardinality(DOMAIN rooms) >= MAX_ROOMS)
        => /\ last'.status # 200
           /\ rooms' = rooms
           /\ last'.limiter = "allow" => last'.error = "Room limit reached"

C9_RegistryCeiling == [][C9_CapacityStep]_vars

\* C9 witness: a request rejected with Room limit reached, the registry full.
C9_Witness ==
    /\ last.op = "create-room"
    /\ last.error = "Room limit reached"
    /\ Cardinality(DOMAIN rooms) = MAX_ROOMS

\* The successful creations, of the times made, in the hour that ends at t
\* (t included, t - GLOBAL_ROOM_LIMIT_WINDOW not).
CreationsWithin(made, t) ==
    {k \in 1 .. Len(made) :
        made[k] <= t /\ made[k] > t - GLOBAL_ROOM_LIMIT_WINDOW}

\* C10: no hour holds more than GLOBAL_MAX_ROOMS_PER_HOUR successful
\* creations; a create-room request is rejected when that many lie in the
\* hour before it; and the creation count holds the times of successful
\* creations only, the most recent of them, in order.
C10_VelocityStep ==
    /\ \A k \in 1 .. Len(hist'.creations) :
          Cardinality(CreationsWithin(hist'.creations, hist'.creations[k]))
              <= GLOBAL_MAX_ROOMS_PER_HOUR
    /\ IsSuffix(globalRoomCreations', hist'.creations)
    /\ (/\ last'.op = "create-room"
        /\ Cardinality(CreationsWithin(hist.creations, now))
              >= GLOBAL_MAX_ROOMS_PER_HOUR)
        => (last'.status # 200 /\ rooms' = rooms)

C10_GlobalVelocityCeiling == [][C10_VelocityStep]_vars

\* C10 witness: an eleventh request inside the hour, with room in the
\* registry, rejected with Global limit reached.
C10_Witness ==
    /\ last.op = "create-room"
    /\ last.error = "Global limit reached"
    /\ Len(hist.creations) = GLOBAL_MAX_ROOMS_PER_HOUR
    /\ now - hist.creations[1] < GLOBAL_ROOM_LIMIT_WINDOW
    /\ Cardinality(DOMAIN rooms) < MAX_ROOMS
    /\ Len(globalRoomCreations) = GLOBAL_MAX_ROOMS_PER_HOUR

\* The rooms whose participant map holds an entry for connection c.
RoomsHolding(c) == {r \in DOMAIN rooms : c \in PartIds(rooms[r].participants)}

\* C11: no connection id is in the participant map of more than one room.
C11_OneRoomPerConnection ==
    \A c \in 1 .. uuids.client : Cardinality(RoomsHolding(c)) <= 1

\* C13: a chat-message that was appended and broadcast came from a
\* connection bound to the room it names.
C13_ChatOnlyWhenBound ==
    (last.op = "chat-message" /\ last.ok)
        => clients[last.client].roomId = last.room

\* C16: every participant id in every room is the id of a connection in the
\* connection registry.
C16_ParticipantsAreConnections ==
    \A r \in DOMAIN rooms : PartIds(rooms[r].participants) \subseteq DOMAIN clients

\* C12: a join-room naming an id that is not in the registry changes no
\* room, no connection entry and no history, and sends one error message, to
\* the joiner alone (nothing at all when the joiner's transport is not open).
C12_JoinMissingStep ==
    (last'.op = "join-room" /\ last'.room \notin DOMAIN rooms)
        => /\ rooms' = rooms
           /\ clients' = clients
           /\ hist' = hist
           /\ sent' = IF clients[last'.client].readyState = "OPEN"
                      THEN <<[to |-> last'.client,
                              msg |-> [type |-> "error",
                                       message |-> "room not found"]]>>
                      ELSE <<>>

C12_JoinMissingRoomRejected == [][C12_JoinMissingStep]_vars

\* C12 witness: the joiner got the error while another connection, open and
\* in a room, got nothing.
C12_Witness ==
    /\ last.op = "join-room"
    /\ ~last.ok
    /\ Len(sent) = 1
    /\ sent[1].to = last.client
    /\ clients[last.client].roomId = NullRoom
    /\ \E c \in DOMAIN clients \ {last.client} :
          IsOpen(clients, c) /\ clients[c].roomId \in DOMAIN rooms

\* The messages, of the sends s, that connection m received, in order.
Received(s, m) ==
    LET q == SelectSeq(s, LAMBDA x : x.to = m)
    IN  [i \in 1 .. Len(q) |-> q[i].msg]

\* C14: a close removes the connection's entry.  When the connection was
\* bound to a room of the registry, the room loses its participant and
\* nothing else, its empty timestamp becomes the current time exactly when
\* its map is now empty, no other room changes, and each remaining member
\* with an open transport receives user-left and then participants-update
\* with the new roster, while nobody else receives anything.  Otherwise no
\* room changes and nothing is sent.
C14_CloseStep ==
    last'.op = "close" =>
        LET c == last'.client
            r == clients[c].roomId
        IN  /\ c \notin DOMAIN clients'
            /\ \A d \in DOMAIN clients \ {c} :
                  d \in DOMAIN clients' /\ clients'[d] = clients[d]
            /\ IF r # NullRoom /\ r \in DOMAIN rooms
               THEN LET before == rooms[r].participants
                        after == rooms'[r].participants
                    IN  /\ DOMAIN rooms' = DOMAIN rooms
                        /\ \A x \in DOMAIN rooms \ {r} : rooms'[x] = rooms[x]
                        /\ c \notin PartIds(after)
                        /\ after = SelectSeq(before, LAMBDA p : p.id # c)
                        /\ rooms'[r].lastEmptyTime =
                              IF Len(after) = 0 THEN now
                              ELSE rooms[r].lastEmptyTime
                        /\ rooms'[r].messages = rooms[r].messages
                        /\ \A m \in 1 .. uuids.client :
                              Received(sent', m) =
                                 IF m \in PartIds(after) /\ IsOpen(clients, m)
                                 THEN <<[type |-> "user-left", clientId |-> c,
                                         nickname |-> clients[c].nickname],
                                        [type |-> "participants-update",
                                         participants |-> after]>>
                                 ELSE <<>>
               ELSE rooms' = rooms /\ sent' = <<>>

C14_CloseRemovesAndNotifies == [][C14_CloseStep]_vars

\* C14 witness: a close that left one member in the room, who received the
\* two events.
C14_Witness ==
    /\ last.op = "close"
    /\ last.room \in DOMAIN rooms
    /\ Len(rooms[last.room].participants) = 1
    /\ rooms[last.room].lastEmptyTime = NullTime
    /\ Len(sent) = 2
    /\ sent[1].msg.type = "user-left"
    /\ sent[1].msg.clientId = last.client
    /\ sent[2].msg.type = "participants-update"
    /\ sent[2].to \in PartIds(rooms[last.room].participants)

\* What a presence message of the given type asks for: the flag it names,
\* the value the flag gets, and the type of the event that announces it.
PresenceFlag(type) ==
    CASE type = "toggle-mute" -> "isMuted"
      [] type = "toggle-deafen" -> "isDeafened"
      [] OTHER -> "isScreenSharing"

PresenceValue(type, value) ==
    CASE type \in {"toggle-mute", "toggle-deafen"} -> value
      [] type = "screen-share-started" -> TRUE
      [] OTHER -> FALSE

PresenceAnnounced(type) ==
    CASE type = "toggle-mute" -> "user-mute-changed"
      [] type = "toggle-deafen" -> "user-deafen-changed"
      [] OTHER -> type

\* C15: a presence message changes no connection entry and no history.
\* From a connection whose room holds its participant record it sets the
\* one flag of that record, leaves every other record of the room, the
\* room's log and timestamps and every other room as they were, and each
\* member of the room with an open transport, the sender included, receives
\* one event of the matching type naming the sender; from any other
\* connection it changes nothing and sends nothing.
C15_PresenceStep ==
    last'.op \in PresenceTypes =>
        LET c == last'.client
            r == clients[c].roomId
        IN  /\ clients' = clients
            /\ hist' = hist
            /\ DOMAIN rooms' = DOMAIN rooms
            /\ IF r \in DOMAIN rooms /\ c \in PartIds(rooms[r].participants)
               THEN LET before == rooms[r].participants
                        after == rooms'[r].participants
                    IN  /\ \A x \in DOMAIN rooms \ {r} : rooms'[x] = rooms[x]
                        /\ rooms'[r] = [rooms[r] EXCEPT !.participants = after]
                        /\ Len(after) = Len(before)
                        /\ \A i \in 1 .. Len(before) :
                              after[i] =
                                 IF before[i].id = c
                                 THEN [before[i] EXCEPT
                                         ![PresenceFlag(last'.op)] =
                                            PresenceValue(last'.op, last'.value)]
                                 ELSE before[i]
                        /\ \A m \in 1 .. uuids.client :
                              LET got == Received(sent', m) IN
                              IF m \in PartIds(before) /\ IsOpen(clients, m)
                              THEN /\ Len(got) = 1
                                   /\ got[1].type = PresenceAnnounced(last'.op)
                                   /\ got[1].clientId = c
                              ELSE got = <<>>
               ELSE rooms' = rooms /\ sent' = <<>>

TokenErrors == {"Invalid token", "Token expired", "Too fast", "Forbidden"}

\* C17: a create-room request that a token check rejects has not reached
\* the rate check: the rate records are as they were, no unblock timer was
\* armed, and no room and no creation time was added.
C17_TokenRejectionStep ==
    (last'.op = "create-room" /\ last'.error \in TokenErrors)
        => /\ rateLimit' = rateLimit
           /\ last'.limiter = "not called"
           /\ timers' = timers
           /\ rooms' = rooms
           /\ globalRoomCreations' = globalRoomCreations
           /\ last'.status = 403

C17_RateCheckAfterTokenChecks == [][C17_TokenRejectionStep]_vars

\* C17 witness: Token expired for an address that has a rate record.
C17_Witness ==
    /\ last.op = "create-room"
    /\ last.error = "Token expired"
    /\ last.ip \in DOMAIN rateLimit
    /\ rateLimit[last.ip].count = 1

\* C18: a request presenting a token that was issued, that no request has
\* presented before, and that is older than the token lifetime, is answered
\* Token expired.
C18_ExpiredStep ==
    (/\ last'.op = "create-room"
     /\ last'.token \in DOMAIN hist.issued
     /\ last'.token \notin hist.consumed
     /\ now - hist.issued[last'.token] > CSRF_TOKEN_LIFETIME)
        => last'.error = "Token expired"

C18_OldTokenIsExpired == [][C18_ExpiredStep]_vars

\* C19: for every address on the block list a removal is pending.
C19_BlockHasPendingRemoval ==
    \A ip \in suspiciousIPs :
        \E t \in timers : t.kind = "unblock" /\ t.key = ip

\* C20: in every room of the registry the empty timestamp is null exactly
\* when the participant map is not empty; a created room starts empty with
\* the timestamp at the current time, a successful join leaves it null, and
\* a close that empties the map leaves it at the current time.
C20_StampStep ==
    /\ \A r \in DOMAIN rooms' :
          (rooms'[r].lastEmptyTime = NullTime)
              <=> (Len(rooms'[r].participants) > 0)
    /\ (last'.op = "create-room" /\ last'.status = 200)
        => /\ rooms'[last'.roomId].lastEmptyTime = now
           /\ rooms'[last'.roomId].participants = <<>>
    /\ (last'.op = "join-room" /\ last'.ok)
        => rooms'[last'.room].lastEmptyTime = NullTime
    /\ (/\ last'.op = "close"
        /\ last'.room \in DOMAIN rooms
        /\ Len(rooms'[last'.room].participants) = 0)
        => rooms'[last'.room].lastEmptyTime = now

C20_EmptyStampIffEmpty == [][C20_StampStep]_vars

\* C20 witness: the close of its last participant has stamped a room that
\* was created earlier.
C20_Witness ==
    /\ last.op = "close"
    /\ last.room \in DOMAIN rooms
    /\ hist.emptySince[last.room] = now
    /\ rooms[last.room].lastEmptyTime = now
    /\ rooms[last.room].createdAt < now

\* C22: a successful create-room adds exactly one room, under an id that no
\* room of the registry had, and leaves every room that existed before as
\* it was (admin key, creation time, participants, chat log).
C22_CreateStep ==
    (last'.op = "create-room" /\ last'.status = 200)
        => /\ last'.roomId \notin DOMAIN rooms
           /\ DOMAIN rooms' = DOMAIN rooms \cup {last'.roomId}
           /\ \A r \in DOMAIN rooms : rooms'[r] = rooms[r]

C22_RoomIdsUniqueAndImmutable == [][C22_CreateStep]_vars

\* C21: a successful join-room sends, in this order: to the joiner one
\* joined reply with the key drawn for this join, the room's roster with the
\* joiner in it, and the last min(50, length) messages of the log in their
\* order; then one user-joined to each other participant with an open
\* transport and none to the joiner; then one participants-update with the
\* same roster to each participant with an open transport, the joiner
\* included.
C21_JoinStep ==
    (last'.op = "join-room" /\ last'.ok)
        => LET j == last'.client
               r == last'.room
               roster == rooms'[r].participants
               key == clients'[j].userKey
               log == rooms[r].messages
               k == IF Len(log) < 50 THEN Len(log) ELSE 50
               open == {c \in PartIds(roster) : IsOpen(clients', c)}
               off == IF j \in open THEN 1 ELSE 0
               n == Cardinality(open \ {j})
           IN  /\ PartIds(roster) = PartIds(rooms[r].participants) \cup {j}
               /\ \A i \in 1 .. Len(roster) :
                     IF roster[i].id = j
                     THEN roster[i].userKey = key /\ roster[i].nickname = clients'[j].nickname
                     ELSE \E h \in 1 .. Len(rooms[r].participants) :
                             roster[i] = rooms[r].participants[h]
               /\ Cardinality(PartIds(roster)) = Len(roster)
               /\ key = uuids'.key /\ uuids'.key > uuids.key
               /\ Len(sent') = off + n + Cardinality(open)
               /\ j \in open =>
                     /\ sent'[1].to = j
                     /\ sent'[1].msg.type = "joined"
                     /\ sent'[1].msg.roomId = r
                     /\ sent'[1].msg.userKey = key
                     /\ sent'[1].msg.participants = roster
                     /\ Len(sent'[1].msg.messages) = k
                     /\ \A i \in 1 .. k :
                           sent'[1].msg.messages[i] = log[Len(log) - k + i]
               /\ {sent'[off + i].to : i \in 1 .. n} = open \ {j}
               /\ \A i \in 1 .. n :
                     sent'[off + i].msg =
                         [type |-> "user-joined",
                          user |-> [id |-> j, nickname |-> clients'[j].nickname,
                                    userKey |-> key]]
               /\ {sent'[off + n + i].to : i \in 1 .. Cardinality(open)} = open
               /\ \A i \in 1 .. Cardinality(open) :
                     sent'[off + n + i].msg =
                         [type |-> "participants-update", participants |-> roster]

C21_JoinEmitsInOrder == [][C21_JoinStep]_vars

\* C21 witness: a connection has joined a room whose log holds more than 50
\* messages and which has another member: it got the joined reply with 50
\* messages, the other member got user-joined, and both got the roster.
C21_Witness ==
    /\ last.op = "join-room" /\ last.ok
    /\ Len(rooms[last.room].messages) > 50
    /\ Len(sent) = 4
    /\ sent[1].to = last.client
    /\ sent[1].msg.type = "joined"
    /\ Len(sent[1].msg.messages) = 50
    /\ sent[2].to # last.client
    /\ sent[2].msg.type = "user-joined"

\* C23: the server and the same server without the rate-record sweep, given
\* the same calls of checkRateLimit at the same times, return the same
\* result for every call and hold the same block list; their record maps
\* differ only in records whose window has elapsed, which the sweep has
\* deleted here and the next call replaces in both.
C23_SweepIsTransparent ==
    /\ hist.unswept.agree
    /\ hist.unswept.suspiciousIPs = suspiciousIPs
    /\ DOMAIN rateLimit \subseteq DOMAIN hist.unswept.rateLimit
    /\ \A ip \in DOMAIN hist.unswept.rateLimit :
          IF ip \in DOMAIN rateLimit
          THEN rateLimit[ip] = hist.unswept.rateLimit[ip]
          ELSE now > hist.unswept.rateLimit[ip].resetTime

\* C23 witness: a call was just allowed for one address while the sweep has
\* deleted another address's record, which the server without the sweep
\* still holds; an address has been put on the block list before.
C23_Witness ==
    /\ last.op = "checkRateLimit" /\ last.ok
    /\ \E ip \in DOMAIN hist.unswept.rateLimit :
          ip # last.ip /\ ip \notin DOMAIN rateLimit
    /\ hist.unswept.rateLimit # rateLimit
    /\ DOMAIN hist.promotedAt # {}

\* C24: for every token in the store, every address a it could have been
\* issued to, and every create-room request presenting it (from any address,
\* with browser or script headers), the handler's response and every part
\* of the state it leaves are the same in the run where the store records a
\* as the token's address as in this run; and no request presenting a token
\* of the store is answered Invalid token, whichever address sent it.
C24_IssuerDoesNotMatter ==
    /\ \A t \in DOMAIN csrfTokens, a \in TokenIPs, ip \in TokenIPs,
          req \in {BrowserRequest, ScriptRequest} :
          CreateRoomOn([csrfTokens EXCEPT ![t].ip = a], ip, t, req, 1, FALSE)
              = CreateRoomOutcome(ip, t, req, 1)
    /\ (last.op = "create-room" /\ last.issuedTo # NoIP)
          => last.error # "Invalid token"

\* C24 witness: a room was created by a request whose token had been issued
\* to another address than the one presenting it.
C24_Witness ==
    /\ last.op = "create-room"
    /\ last.status = 200
    /\ last.issuedTo # NoIP
    /\ last.issuedTo # last.ip

====
